---- MODULE Spec2Model ----
(***************************************************************************)
(* Model of app.py, the email template generator: the template parser,     *)
(* the placeholder extractor and substitutor, the Outlook mail deep-link   *)
(* encoder and the interview meeting time computation.                     *)
(*                                                                         *)
(* A Python str is modelled as a sequence of one-character strings, a      *)
(* Python dict as the sequence of its <<key, value>> pairs in insertion    *)
(* order, a list as a sequence.                                            *)
(***************************************************************************)
EXTENDS Integers, Sequences, FiniteSets, TLC

VARIABLES
    pc,                 \* position of the script / of the call in progress
    text, values,       \* arguments of extract_placeholders / replace_placeholders
    placeholders,       \* result of extract_placeholders
    result, result2,    \* replace_placeholders applied once / twice
    content,            \* raw template text returned by read_docx
    subject_text, body_text,          \* result of extract_subject_and_body
    final_subject, final_body,        \* subject and body after substitution
    subject, body, to, cc, bcc,       \* arguments of create_outlook_web_link
    outlook_url,                      \* its return value
    meeting_date, meeting_start, duration,  \* interview form inputs
    meeting_end,                            \* time of day, minutes after 00:00
    meeting_start_time, meeting_end_time    \* datetimes, minutes after day 0 00:00

substVars == <<text, values, placeholders, result, result2>>
parseVars == <<content, subject_text, body_text, final_subject, final_body>>
linkVars == <<subject, body, to, cc, bcc, outlook_url>>
meetingVars == <<meeting_date, meeting_start, duration, meeting_end,
                 meeting_start_time, meeting_end_time>>
vars == <<pc, substVars, parseVars, linkVars, meetingVars>>

----------------------------------------------------------------------------
(* Bounds of the model *)

\* pieces concatenated into a text given to extract_placeholders
MaxPieces == 5
\* length of a text given to replace_placeholders with an arbitrary dict
MaxSubstLen == 6
\* length of a text taken through extraction, form filling and substitution
MaxRoundTripLen == 8
\* paragraphs of a template document
MaxParagraphs == 3
\* length of the final body given to create_outlook_web_link
MaxBodyLen == 3
\* latest meeting date, in days after today
MaxDay == 2

----------------------------------------------------------------------------
(* Python str and list primitives *)

Range(s) == {s[i] : i \in 1..Len(s)}

\* all strings over alphabet A of length at most n
Strings(A, n) == UNION {[1..k -> A] : k \in 0..n}

\* s[i:].startswith(p), i 1-based
StartsWithAt(s, i, p) ==
    /\ i + Len(p) - 1 <= Len(s)
    /\ \A k \in 1..Len(p) : s[i + k - 1] = p[k]

\* p in s
Contains(s, p) == \E i \in 1..(Len(s) + 1) : StartsWithAt(s, i, p)

\* str.replace(old, new) for a non-empty old: left to right, non-overlapping
RECURSIVE str_replace_from(_, _, _, _)
str_replace_from(s, old, new, i) ==
    IF i > Len(s) THEN <<>>
    ELSE IF StartsWithAt(s, i, old)
         THEN new \o str_replace_from(s, old, new, i + Len(old))
         ELSE <<s[i]>> \o str_replace_from(s, old, new, i + 1)

str_replace(s, old, new) == str_replace_from(s, old, new, 1)

----------------------------------------------------------------------------
(* More str primitives: split, join, strip, lower *)

\* str.split(sep) for a one-character sep: the pieces, empty ones kept
RECURSIVE str_split_from(_, _, _, _)
str_split_from(s, sep, i, piece) ==
    IF i > Len(s) THEN <<piece>>
    ELSE IF s[i] = sep
         THEN <<piece>> \o str_split_from(s, sep, i + 1, <<>>)
         ELSE str_split_from(s, sep, i + 1, Append(piece, s[i]))

str_split(s, sep) == str_split_from(s, sep, 1, <<>>)

\* sep.join(pieces)
RECURSIVE str_join(_, _)
str_join(sep, pieces) ==
    IF pieces = <<>> THEN <<>>
    ELSE IF Len(pieces) = 1 THEN pieces[1]
    ELSE pieces[1] \o sep \o str_join(sep, Tail(pieces))

\* The characters str.strip() removes, among those up to U+00FF: the ASCII
\* space, TAB, LF, VT, FF, CR, FS, GS, RS and US, then NEL and the no-break
\* space. (The whitespace beyond U+00FF, U+1680, U+2000 to U+200A, U+2028,
\* U+2029, U+202F, U+205F and U+3000, cannot be written in a string here.)
Whitespace == {" ", "\t", "\n", "", "\f", "\r", "", "", "", "", "", " "}

RECURSIVE lstrip(_)
lstrip(s) ==
    IF s # <<>> /\ Head(s) \in Whitespace THEN lstrip(Tail(s)) ELSE s

RECURSIVE rstrip(_)
rstrip(s) ==
    IF s # <<>> /\ s[Len(s)] \in Whitespace THEN rstrip(SubSeq(s, 1, Len(s) - 1)) ELSE s

str_strip(s) == rstrip(lstrip(s))

UpperLetters == <<"A", "B", "C", "D", "E", "F", "G", "H", "I", "J", "K", "L", "M",
                  "N", "O", "P", "Q", "R", "S", "T", "U", "V", "W", "X", "Y", "Z">>
LowerLetters == <<"a", "b", "c", "d", "e", "f", "g", "h", "i", "j", "k", "l", "m",
                  "n", "o", "p", "q", "r", "s", "t", "u", "v", "w", "x", "y", "z">>

\* str.lower() on ASCII
str_lower(s) ==
    [i \in 1..Len(s) |->
        IF \E k \in 1..Len(UpperLetters) : UpperLetters[k] = s[i]
        THEN LowerLetters[CHOOSE k \in 1..Len(UpperLetters) : UpperLetters[k] = s[i]]
        ELSE s[i]]

----------------------------------------------------------------------------
(* read_docx and extract_subject_and_body *)

\* what read_docx returns when the document cannot be read
None == <<"None">>

\* the non-blank paragraphs of doc.paragraphs, in order
RECURSIVE non_blank(_)
non_blank(paragraphs) ==
    IF paragraphs = <<>> THEN <<>>
    ELSE IF str_strip(Head(paragraphs)) # <<>>
         THEN <<Head(paragraphs)>> \o non_blank(Tail(paragraphs))
         ELSE non_blank(Tail(paragraphs))

\* A document is [readable, paragraphs]: Document(file_path) raises on an
\* unreadable one, and read_docx then reports the error and returns None.
read_docx(doc) ==
    IF doc.readable THEN str_join(<<"\n">>, non_blank(doc.paragraphs)) ELSE None

SubjectMarker == <<"s", "u", "b", "j", "e", "c", "t", ":">>

\* line.strip().lower().startswith('subject:')
IsSubjectLine(line) == StartsWithAt(str_lower(str_strip(line)), 1, SubjectMarker)

\* line.split(':', 1)[1].strip()
AfterFirstColon(line) ==
    LET k == CHOOSE k \in 1..Len(line) :
                 line[k] = ":" /\ \A h \in 1..(k - 1) : line[h] # ":"
    IN  str_strip(SubSeq(line, k + 1, Len(line)))

\* the loop over lines: st is [subject, body_lines]
RECURSIVE parse_loop(_, _, _)
parse_loop(lines, i, st) ==
    IF i > Len(lines) THEN st
    ELSE IF IsSubjectLine(lines[i])
         THEN parse_loop(lines, i + 1,
                         [subject |-> AfterFirstColon(lines[i]), body_lines |-> st.body_lines])
         ELSE parse_loop(lines, i + 1,
                         [subject |-> st.subject, body_lines |-> Append(st.body_lines, lines[i])])

\* returns <<subject, body>>
extract_subject_and_body(c) ==
    LET st == parse_loop(str_split(c, "\n"), 1, [subject |-> <<>>, body_lines |-> <<>>])
    IN  <<st.subject, str_strip(str_join(<<"\n">>, st.body_lines))>>

----------------------------------------------------------------------------
(* extract_placeholders *)

\* index of the first "}" at or after i, 0 when there is none
RECURSIVE FirstClose(_, _)
FirstClose(s, i) ==
    IF i > Len(s) THEN 0
    ELSE IF s[i] = "}" THEN i
    ELSE FirstClose(s, i + 1)

\* The matches of the pattern \{([^}]+)\} that re.findall scans, left to right
\* and non-overlapping, each with the index of its "{" and its group 1.
RECURSIVE re_matches_from(_, _)
re_matches_from(s, i) ==
    IF i > Len(s) THEN <<>>
    ELSE IF s[i] = "{"
         THEN LET j == FirstClose(s, i + 1)
              IN  IF j > i + 1
                  THEN <<[pos |-> i, name |-> SubSeq(s, i + 1, j - 1)]>>
                           \o re_matches_from(s, j + 1)
                  ELSE re_matches_from(s, i + 1)
         ELSE re_matches_from(s, i + 1)

re_matches(s) == re_matches_from(s, 1)

re_findall(s) == [k \in 1..Len(re_matches(s)) |-> re_matches(s)[k].name]

\* the loop over placeholders with the seen set
RECURSIVE unique_loop(_, _, _)
unique_loop(phs, i, unique_placeholders) ==
    IF i > Len(phs) THEN unique_placeholders
    ELSE IF phs[i] \in Range(unique_placeholders)
         THEN unique_loop(phs, i + 1, unique_placeholders)
         ELSE unique_loop(phs, i + 1, Append(unique_placeholders, phs[i]))

\* faulty variant: the duplicates are kept
extract_placeholders_dups(t) == re_findall(t)

extract_placeholders(t) == unique_loop(re_findall(t), 1, <<>>)

----------------------------------------------------------------------------
(* replace_placeholders *)

\* f"{{{placeholder}}}"
Token(placeholder) == <<"{">> \o placeholder \o <<"}">>

\* the loop over values.items(), each pass on the whole current result
RECURSIVE replace_loop(_, _, _)
replace_loop(res, vals, i) ==
    IF i > Len(vals) THEN res
    ELSE replace_loop(str_replace(res, Token(vals[i][1]), vals[i][2]), vals, i + 1)

\* faulty variant: each pass replaces only the first occurrence of its token
RECURSIVE replace_first(_, _, _, _)
replace_first(s, old, new, i) ==
    IF i > Len(s) THEN <<>>
    ELSE IF StartsWithAt(s, i, old)
         THEN new \o SubSeq(s, i + Len(old), Len(s))
         ELSE <<s[i]>> \o replace_first(s, old, new, i + 1)

RECURSIVE replace_loop_first(_, _, _)
replace_loop_first(res, vals, i) ==
    IF i > Len(vals) THEN res
    ELSE replace_loop_first(replace_first(res, Token(vals[i][1]), vals[i][2], 1),
                            vals, i + 1)

replace_placeholders_first(t, vals) == replace_loop_first(t, vals, 1)

replace_placeholders(t, vals) == replace_loop(t, vals, 1)

----------------------------------------------------------------------------
(* urllib.parse.quote and create_outlook_web_link *)

\* the ASCII characters 32..95 and 97..126 in code order
AsciiFrom32 ==
    <<" ", "!", "\"", "#", "$", "%", "&", "'", "(", ")", "*", "+", ",", "-", ".", "/",
      "0", "1", "2", "3", "4", "5", "6", "7", "8", "9", ":", ";", "<", "=", ">", "?",
      "@", "A", "B", "C", "D", "E", "F", "G", "H", "I", "J", "K", "L", "M", "N", "O",
      "P", "Q", "R", "S", "T", "U", "V", "W", "X", "Y", "Z", "[", "\\", "]", "^", "_">>

AsciiFrom97 ==
    <<"a", "b", "c", "d", "e", "f", "g", "h", "i", "j", "k", "l", "m", "n", "o", "p",
      "q", "r", "s", "t", "u", "v", "w", "x", "y", "z", "{", "|", "}", "~">>

\* ord(c) of an ASCII character
Ord(c) ==
    IF c = "\t" THEN 9
    ELSE IF c = "\n" THEN 10
    ELSE IF c = "\f" THEN 12
    ELSE IF c = "\r" THEN 13
    ELSE IF \E k \in 1..Len(AsciiFrom32) : AsciiFrom32[k] = c
         THEN 31 + (CHOOSE k \in 1..Len(AsciiFrom32) : AsciiFrom32[k] = c)
         ELSE 96 + (CHOOSE k \in 1..Len(AsciiFrom97) : AsciiFrom97[k] = c)

HexDigits == <<"0", "1", "2", "3", "4", "5", "6", "7", "8", "9", "A", "B", "C", "D", "E", "F">>

\* the characters quote never escapes, with its default safe /
QuoteSafe ==
    Range(UpperLetters) \cup Range(LowerLetters)
        \cup {"0", "1", "2", "3", "4", "5", "6", "7", "8", "9"}
        \cup {"_", ".", "-", "~"} \cup {"/"}

quote_char(c) ==
    IF c \in QuoteSafe THEN <<c>>
    ELSE <<"%", HexDigits[(Ord(c) \div 16) + 1], HexDigits[(Ord(c) % 16) + 1]>>

\* urllib.parse.quote(s) on ASCII
RECURSIVE quote(_)
quote(s) == IF s = <<>> THEN <<>> ELSE quote_char(Head(s)) \o quote(Tail(s))

KeySubject == <<"s", "u", "b", "j", "e", "c", "t">>
KeyBody == <<"b", "o", "d", "y">>
KeyTo == <<"t", "o">>
KeyCc == <<"c", "c">>
KeyBcc == <<"b", "c", "c">>

OutlookBase ==
    <<"h", "t", "t", "p", "s", ":", "/", "/", "o", "u", "t", "l",
      "o", "o", "k", ".", "o", "f", "f", "i", "c", "e", ".", "c",
      "o", "m", "/", "m", "a", "i", "l", "/", "d", "e", "e", "p",
      "l", "i", "n", "k", "/", "c", "o", "m", "p", "o", "s", "e",
      "?">>

\* body.replace('\n', '%0D%0A')
body_encoded(b) == str_replace(b, <<"\n">>, <<"%", "0", "D", "%", "0", "A">>)

\* the params dict, in insertion order
outlook_params(s, b, t, c, bc) ==
    <<<<KeySubject, quote(s)>>, <<KeyBody, body_encoded(b)>>>>
        \o (IF t # <<>> THEN <<<<KeyTo, quote(t)>>>> ELSE <<>>)
        \o (IF c # <<>> THEN <<<<KeyCc, quote(c)>>>> ELSE <<>>)
        \o (IF bc # <<>> THEN <<<<KeyBcc, quote(bc)>>>> ELSE <<>>)

\* '&'.join([f"{k}={v}" for k, v in params.items()])
query_string(params) ==
    str_join(<<"&">>, [i \in 1..Len(params) |-> params[i][1] \o <<"=">> \o params[i][2]])

\* faulty variant: to, cc and bcc are added whether empty or not
create_outlook_web_link_all(s, b, t, c, bc) ==
    OutlookBase \o query_string(<<<<KeySubject, quote(s)>>, <<KeyBody, body_encoded(b)>>,
                                  <<KeyTo, quote(t)>>, <<KeyCc, quote(c)>>,
                                  <<KeyBcc, quote(bc)>>>>)

create_outlook_web_link(s, b, t, c, bc) ==
    OutlookBase \o query_string(outlook_params(s, b, t, c, bc))

----------------------------------------------------------------------------
(* Input domains *)

\* a text given to extract_placeholders is a concatenation of these pieces
Pieces == {<<"{">>, <<"}">>, <<"a">>, <<"b">>, <<"{", "a", "}">>, <<"{", "b", "}">>}
ExtractTexts == {str_join(<<>>, p) : p \in Strings(Pieces, MaxPieces)}
RoundTripAlphabet == {"{", "}", "a"}
SubstAlphabet == {"{", "}", "a"}

\* what a user may type into a placeholder's text_input
FieldInputs == {<<>>, <<"a">>, <<"{", "a", "}">>}

SubstKeys == {<<"a">>, <<"}">>}
SubstVals == {<<>>, <<"a">>, <<"{">>, <<"{", "a", "}">>}

\* the dicts over SubstKeys and SubstVals, in every insertion order
Mappings ==
    {m \in UNION {[1..k -> SubstKeys \X SubstVals] : k \in 0..Cardinality(SubstKeys)} :
        \A i \in 1..Len(m) : \A j \in 1..Len(m) : i # j => m[i][1] # m[j][1]}

\* paragraph texts of the template documents
ParagraphTexts ==
    { <<"S", "u", "b", "j", "e", "c", "t", ":", " ", "{", "a", "}">>,
      <<" ", "S", "U", "B", "J", "E", "C", "T", ":", "b", ":", "{", "c", "}", " ">>,
      <<"H", "i", " ", "{", "a", "}">>,
      <<>>,
      <<"{", "b">>,
      <<"c", "}">>,
      <<"R", "e", " ", "s", "u", "b", "j", "e", "c", "t", ":", " ", "x">> }

\* a file python-docx cannot open
Unreadable == [readable |-> FALSE, paragraphs |-> <<>>]

Documents ==
    {[readable |-> TRUE, paragraphs |-> ps] :
        ps \in UNION {[1..k -> ParagraphTexts] : k \in 1..MaxParagraphs}}
        \cup {Unreadable}

\* documents of one paragraph over RoundTripAlphabet
RoundTripDocuments ==
    {[readable |-> TRUE, paragraphs |-> <<t>>] :
        t \in Strings(RoundTripAlphabet, MaxRoundTripLen)}
        \cup {Unreadable}

LinkSubjects == {<<>>, <<"A", " ", "B">>}
BodyAlphabet == {"a", "\n", "&", "=", " "}
Recipients == {<<>>, <<"x", "@", "y", ".", "c">>}

\* the options of the Duration selectbox
Durations == {30, 45, 60, 90, 120}

\* times of day offered by the Start Time input, minutes after 00:00
StartTimes == {m \in 0..(24 * 60 - 1) : m % 15 = 0}

IdleSubst ==
    /\ text = <<>> /\ values = <<>> /\ placeholders = <<>>
    /\ result = <<>> /\ result2 = <<>>

IdleParse ==
    /\ content = <<>> /\ subject_text = <<>> /\ body_text = <<>>
    /\ final_subject = <<>> /\ final_body = <<>>

IdleLink ==
    /\ subject = <<>> /\ body = <<>> /\ to = <<>> /\ cc = <<>> /\ bcc = <<>>
    /\ outlook_url = <<>>

IdleMeeting ==
    /\ meeting_date = 0 /\ meeting_start = 0 /\ duration = 0 /\ meeting_end = 0
    /\ meeting_start_time = 0 /\ meeting_end_time = 0

----------------------------------------------------------------------------
(* extract_placeholders called on a text *)

InitExtract ==
    /\ pc = "start"
    /\ text \in ExtractTexts
    /\ values = <<>> /\ placeholders = <<>> /\ result = <<>> /\ result2 = <<>>
    /\ IdleParse /\ IdleLink /\ IdleMeeting

ExtractCall ==
    /\ pc = "start"
    /\ placeholders' = extract_placeholders(text)
    /\ pc' = "extracted"
    /\ UNCHANGED <<text, values, result, result2, parseVars, linkVars, meetingVars>>

SpecExtract == InitExtract /\ [][ExtractCall]_vars

----------------------------------------------------------------------------
(* replace_placeholders called on a text and a dict, then on its result *)

InitSubst ==
    /\ pc = "start"
    /\ text \in Strings(SubstAlphabet, MaxSubstLen)
    /\ values \in Mappings
    /\ placeholders = <<>> /\ result = <<>> /\ result2 = <<>>
    /\ IdleParse /\ IdleLink /\ IdleMeeting

ReplaceOnce ==
    /\ pc = "start"
    /\ result' = replace_placeholders(text, values)
    /\ pc' = "once"
    /\ UNCHANGED <<text, values, placeholders, result2, parseVars, linkVars, meetingVars>>

ReplaceTwice ==
    /\ pc = "once"
    /\ result2' = replace_placeholders(result, values)
    /\ pc' = "twice"
    /\ UNCHANGED <<text, values, placeholders, result, parseVars, linkVars, meetingVars>>

NextSubst == ReplaceOnce \/ ReplaceTwice

SpecSubst == InitSubst /\ [][NextSubst]_vars

----------------------------------------------------------------------------
(* Properties of extract_placeholders *)

NoDuplicates(seq) == \A i \in 1..Len(seq) : \A j \in 1..Len(seq) : i # j => seq[i] # seq[j]

\* index in t of the "{" of the first match whose name is n
FirstMatchPos(t, n) ==
    LET ms == re_matches(t)
        k == CHOOSE k \in 1..Len(ms) :
                 /\ ms[k].name = n
                 /\ \A h \in 1..(k - 1) : ms[h].name # n
    IN  ms[k].pos

\* C7: extract_placeholders returns every matched name exactly once, ordered
\* by the position of the name's first match in the text, and returns the
\* empty sequence when the text is empty or has no match.
ExtractDistinctInFirstOccurrenceOrder ==
    pc = "extracted" =>
        /\ NoDuplicates(placeholders)
        /\ Range(placeholders) = {m.name : m \in Range(re_matches(text))}
        /\ \A i \in 1..Len(placeholders) : \A j \in 1..Len(placeholders) :
               i < j => FirstMatchPos(text, placeholders[i])
                            < FirstMatchPos(text, placeholders[j])
        /\ (text = <<>> \/ re_matches(text) = <<>>) => placeholders = <<>>

\* a text with two distinct names, the first of them repeated after the
\* second, has been extracted
ExtractDroppedDuplicate ==
    /\ pc = "extracted"
    /\ Len(placeholders) = 2
    /\ Len(re_matches(text)) = 3
    /\ re_matches(text)[3].name = placeholders[1]

\* C8: no name returned by extract_placeholders contains "{" or "}".
ExtractedNamesHaveNoBrace ==
    pc = "extracted" =>
        \A i \in 1..Len(placeholders) :
            "{" \notin Range(placeholders[i]) /\ "}" \notin Range(placeholders[i])

----------------------------------------------------------------------------
(* Properties of replace_placeholders *)

BraceFree(s) == "{" \notin Range(s) /\ "}" \notin Range(s)

\* The substitution in one left-to-right pass over the original text: at
\* each position the first item of vals whose token starts there is
\* replaced by its value, and the scan resumes after the token.
RECURSIVE simultaneous_from(_, _, _)
simultaneous_from(t, vals, i) ==
    IF i > Len(t) THEN <<>>
    ELSE LET hits == {k \in 1..Len(vals) : StartsWithAt(t, i, Token(vals[k][1]))}
         IN  IF hits = {}
             THEN <<t[i]>> \o simultaneous_from(t, vals, i + 1)
             ELSE LET k == CHOOSE k \in hits : \A h \in hits : k <= h
                  IN  vals[k][2] \o simultaneous_from(t, vals, i + Len(Token(vals[k][1])))

\* C1: replace_placeholders(text, values) equals the simultaneous single-pass
\* substitution of the original occurrences; substituted values are not
\* scanned again.
ReplaceIsSimultaneous ==
    pc = "once" => result = simultaneous_from(text, values, 1)

\* no value contains the token of a key
NoTokenInValues(vals) ==
    \A i \in 1..Len(vals) : \A j \in 1..Len(vals) :
        ~Contains(vals[i][2], Token(vals[j][1]))

\* C3 as stated: substituting twice equals substituting once whenever no
\* value contains the token of a key.
ReplaceIdempotentNoTokenInValues ==
    (pc = "twice" /\ NoTokenInValues(values)) => result2 = result

\* no "{" of t is followed by another "{" before the next "}"
BracesNotNested(t) ==
    \A i \in 1..Len(t) : \A j \in 1..Len(t) :
        (i < j /\ t[i] = "{" /\ t[j] = "{") => \E k \in (i + 1)..(j - 1) : t[k] = "}"

BraceFreeItems(vals) ==
    \A i \in 1..Len(vals) : BraceFree(vals[i][1]) /\ BraceFree(vals[i][2])

\* C3 amended: substituting twice equals substituting once when no key and no
\* value contains a brace and the braces of the text are not nested.
ReplaceIdempotentOnFlatText ==
    (pc = "twice" /\ BraceFreeItems(values) /\ BracesNotNested(text))
        => result2 = result

\* a flat text in which a brace-free dict replaced something, substituted twice
ReplacedTwiceOnFlatText ==
    /\ pc = "twice"
    /\ BraceFreeItems(values) /\ BracesNotNested(text)
    /\ Len(values) >= 1
    /\ result # text
    /\ "{" \in Range(result) /\ "}" \in Range(result)

----------------------------------------------------------------------------
(* The script on a selected template: the document is read, the subject   *)
(* and the body are parsed, the placeholders are searched in the raw      *)
(* content, one value is read per placeholder in extraction order and     *)
(* substituted in the subject and in the body.                            *)

InitScript(docs) ==
    /\ pc = "loaded"
    /\ content \in {read_docx(d) : d \in docs}
    /\ subject_text = <<>> /\ body_text = <<>>
    /\ final_subject = <<>> /\ final_body = <<>>
    /\ IdleSubst /\ IdleLink /\ IdleMeeting

InitParse == InitScript(Documents)

InitRoundTrip == InitScript(RoundTripDocuments)

\* if content is None: st.stop()
StopNoContent ==
    /\ pc = "loaded"
    /\ content = None
    /\ pc' = "stopped"
    /\ UNCHANGED <<substVars, parseVars, linkVars, meetingVars>>

ParseTemplate ==
    /\ pc = "loaded"
    /\ content # None
    /\ subject_text' = extract_subject_and_body(content)[1]
    /\ body_text' = extract_subject_and_body(content)[2]
    /\ pc' = "parsed"
    /\ UNCHANGED <<content, final_subject, final_body, substVars, linkVars, meetingVars>>

FindPlaceholders ==
    /\ pc = "parsed"
    /\ placeholders' = extract_placeholders(content)
    /\ pc' = "found"
    /\ UNCHANGED <<text, values, result, result2, parseVars, linkVars, meetingVars>>

FillValues ==
    /\ pc = "found"
    /\ placeholders # <<>>
    /\ \E typed \in [1..Len(placeholders) -> FieldInputs] :
           values' = [i \in 1..Len(placeholders) |-> <<placeholders[i], typed[i]>>]
    /\ pc' = "filled"
    /\ UNCHANGED <<text, placeholders, result, result2, parseVars, linkVars, meetingVars>>

ReplaceFilled ==
    /\ pc = "filled"
    /\ final_subject' = replace_placeholders(subject_text, values)
    /\ final_body' = replace_placeholders(body_text, values)
    /\ pc' = "substituted"
    /\ UNCHANGED <<content, subject_text, body_text, substVars, linkVars, meetingVars>>

\* the template has no placeholders
KeepTemplateText ==
    /\ pc = "found"
    /\ placeholders = <<>>
    /\ final_subject' = subject_text
    /\ final_body' = body_text
    /\ pc' = "substituted"
    /\ UNCHANGED <<content, subject_text, body_text, substVars, linkVars, meetingVars>>

NextScript ==
    \/ StopNoContent
    \/ ParseTemplate
    \/ FindPlaceholders
    \/ FillValues
    \/ ReplaceFilled
    \/ KeepTemplateText

SpecParse == InitParse /\ [][NextScript]_vars

SpecRoundTrip == InitRoundTrip /\ [][NextScript]_vars

----------------------------------------------------------------------------
(* Properties of the parsed template *)

ContentLines == str_split(content, "\n")

HasSubjectLine == \E i \in 1..Len(ContentLines) : IsSubjectLine(ContentLines[i])

FirstSubjectIndex ==
    CHOOSE i \in 1..Len(ContentLines) :
        /\ IsSubjectLine(ContentLines[i])
        /\ \A h \in 1..(i - 1) : ~IsSubjectLine(ContentLines[h])

AllButFirstSubjectLine ==
    SubSeq(ContentLines, 1, FirstSubjectIndex - 1)
        \o SubSeq(ContentLines, FirstSubjectIndex + 1, Len(ContentLines))

\* C4: the subject is read from the first subject line only, and only that
\* line is left out of the body.
SubjectFromFirstSubjectLineOnly ==
    (pc = "parsed" /\ HasSubjectLine) =>
        /\ subject_text = AfterFirstColon(ContentLines[FirstSubjectIndex])
        /\ body_text = str_strip(str_join(<<"\n">>, AllButFirstSubjectLine))

\* C9: every placeholder found in the raw content occurs as {name} in the
\* parsed subject or in the parsed body.
PlaceholdersOccurInSubjectOrBody ==
    pc = "found" =>
        \A i \in 1..Len(placeholders) :
            \/ Contains(subject_text, Token(placeholders[i]))
            \/ Contains(body_text, Token(placeholders[i]))

\* C2: when the body is the text the placeholders were extracted from and
\* every value typed for them is free of braces, no placeholder is left in
\* the substituted body.
RoundTripLeavesNoPlaceholder ==
    (/\ pc = "substituted"
     /\ placeholders = extract_placeholders(body_text)
     /\ Len(values) = Len(placeholders)
     /\ \A i \in 1..Len(values) : BraceFree(values[i][2]))
        => extract_placeholders(final_body) = <<>>

----------------------------------------------------------------------------
(* The Outlook Web link built from the final subject and body and from    *)
(* the recipient fields.                                                   *)

InitLink ==
    /\ pc = "inputs"
    /\ subject \in LinkSubjects
    /\ body \in Strings(BodyAlphabet, MaxBodyLen)
    /\ to \in Recipients /\ cc \in Recipients /\ bcc \in Recipients
    /\ outlook_url = <<>>
    /\ IdleSubst /\ IdleParse /\ IdleMeeting

BuildOutlookLink ==
    /\ pc = "inputs"
    /\ outlook_url' = create_outlook_web_link(subject, body, to, cc, bcc)
    /\ pc' = "linked"
    /\ UNCHANGED <<subject, body, to, cc, bcc, substVars, parseVars, meetingVars>>

SpecLink == InitLink /\ [][BuildOutlookLink]_vars

\* the part of the URL after the base
Query == SubSeq(outlook_url, Len(OutlookBase) + 1, Len(outlook_url))

Count(s, c) == Cardinality({i \in 1..Len(s) : s[i] = c})

EmittedFields ==
    2 + (IF to # <<>> THEN 1 ELSE 0) + (IF cc # <<>> THEN 1 ELSE 0)
      + (IF bcc # <<>> THEN 1 ELSE 0)

\* C5: no reserved character of the body is raw in the URL, so the query
\* string splits on "&" into one key=value pair per emitted field.
BodyIsPercentEncoded ==
    pc = "linked" =>
        /\ \A c \in {" ", "#", "\n"} : c \notin Range(outlook_url)
        /\ Len(str_split(Query, "&")) = EmittedFields
        /\ \A i \in 1..Len(str_split(Query, "&")) : Count(str_split(Query, "&")[i], "=") = 1

Optional(key, value) ==
    IF value # <<>> THEN <<"&">> \o key \o <<"=">> \o quote(value) ELSE <<>>

\* C6: the URL is the base, subject=..., &body=..., then &to=, &cc=, &bcc=
\* in this order, each present exactly when its field is non-empty.
LinkHasFieldsInOrder ==
    pc = "linked" =>
        outlook_url = OutlookBase
                        \o KeySubject \o <<"=">> \o quote(subject)
                        \o <<"&">> \o KeyBody \o <<"=">> \o body_encoded(body)
                        \o Optional(KeyTo, to) \o Optional(KeyCc, cc) \o Optional(KeyBcc, bcc)

\* a link built with to empty and cc and bcc given
LinkBuiltWithoutTo ==
    /\ pc = "linked"
    /\ to = <<>> /\ cc # <<>> /\ bcc # <<>>
    /\ body # <<>>

----------------------------------------------------------------------------
(* The interview meeting times: the end time of day is computed from the  *)
(* start and the duration, then both are combined with the meeting date.  *)
(* A date is a number of days, a time of day a number of minutes, a       *)
(* datetime the number of minutes since day 0 at 00:00.                   *)

\* datetime.combine(d, t)
datetime_combine(d, t) == d * (24 * 60) + t

\* datetime.time()
time_of(dt) == dt % (24 * 60)

InitMeeting ==
    /\ pc = "form"
    /\ meeting_date \in 0..MaxDay
    /\ meeting_start \in StartTimes
    /\ duration \in Durations
    /\ meeting_end = 0 /\ meeting_start_time = 0 /\ meeting_end_time = 0
    /\ IdleSubst /\ IdleParse /\ IdleLink

ComputeMeetingEnd ==
    /\ pc = "form"
    /\ meeting_end' = time_of(datetime_combine(meeting_date, meeting_start) + duration)
    /\ pc' = "end_shown"
    /\ UNCHANGED <<meeting_date, meeting_start, duration, meeting_start_time,
                   meeting_end_time, substVars, parseVars, linkVars>>

CombineDateAndTime ==
    /\ pc = "end_shown"
    /\ meeting_start_time' = datetime_combine(meeting_date, meeting_start)
    /\ meeting_end_time' = datetime_combine(meeting_date, meeting_end)
    /\ pc' = "combined"
    /\ UNCHANGED <<meeting_date, meeting_start, duration, meeting_end,
                   substVars, parseVars, linkVars>>

NextMeeting == ComputeMeetingEnd \/ CombineDateAndTime

SpecMeeting == InitMeeting /\ [][NextMeeting]_vars

\* C10: the end timestamp is the start timestamp plus the duration, hence
\* strictly later than the start.
MeetingEndIsStartPlusDuration ==
    pc = "combined" =>
        /\ meeting_end_time = meeting_start_time + duration
        /\ meeting_end_time > meeting_start_time

====
